---- MODULE Spec2Model ----
(***************************************************************************)
(* Model of scripts/update_rustdoc.py: the upward search for the project   *)
(* root (find_project_root), the root resolution policy of main, and the   *)
(* rewrite of the "## Modules" section of README.md into src/RUSTDOC.md.   *)
(*                                                                         *)
(* A text is a sequence of one-character strings.  Offsets are Python's:   *)
(* offset o stands between the first o characters and the rest, so the     *)
(* character at offset o is t[o + 1].  A path is the sequence of its       *)
(* components below the filesystem root; the root itself is << >>.         *)
(***************************************************************************)
EXTENDS Naturals, Integers, Sequences, FiniteSets, TLC

VARIABLES
    exists,      \* the set of paths that exist in the filesystem
    content,     \* the content of every regular file the model tracks
    linesep,     \* os.linesep of the platform the script runs on
    cwd,         \* Path.cwd() of the process
    script_dir,  \* Path(__file__).resolve().parent
    pc,          \* position of main: "start", "resolved", "read", "exit"
    root,        \* main's root
    usedScript,  \* whether main called find_project_root(script_dir)
    text,        \* main's text (README.read_text)
    new_text,    \* the string main handed to OUTFILE.write_text
    rc,          \* main's return value, -1 while it runs
    msg,         \* what main printed: "none", "error", "copied", "created"
    runs,        \* invocations started so far
    prev,        \* what the previous invocation resolved and wrote
    start,       \* find_project_root's argument (a path as passed in)
    cur,         \* find_project_root's cur
    ret,         \* find_project_root's return value
    wpc,         \* position of find_project_root: "idle", "loop", "returned"
    iters,       \* passes of find_project_root's loop made so far
    fs0          \* the filesystem as the running invocation found it

vars == << exists, content, linesep, cwd, script_dir, pc, root, usedScript,
           text, new_text, rc, msg, runs, prev, start, cur, ret, wpc, iters,
           fs0 >>

(***************************************************************************)
(* Bounds of the model.                                                    *)
(***************************************************************************)
MaxChunks == 3     \* pieces a generated README text is concatenated from
MaxEntries == 3    \* marker entries placed in the initial filesystem
MaxStartLen == 2   \* components of a path handed to find_project_root
MaxRuns == 2       \* invocations of the tool in a row

None == << "None" >>

(***************************************************************************)
(* Text helpers.                                                           *)
(***************************************************************************)
Slice(t, a, b) == SubSeq(t, a + 1, b)                 \* t[a:b]

HasAt(t, o, w) == o + Len(w) <= Len(t) /\ SubSeq(t, o + 1, o + Len(w)) = w

Min(S) == CHOOSE x \in S : \A y \in S : x <= y

Max(S) == CHOOSE x \in S : \A y \in S : x >= y

\* \s of a str pattern, over the characters of the model's alphabet
IsSpace(c) == c \in {" ", "\t", "\n", "\r", "\f"}

\* (?m)^ : at the start of the string and after every "\n"
AtLineStart(t, o) == o = 0 \/ t[o] = "\n"

\* (?m)$ : at the end of the string and before every "\n"
AtLineEnd(t, o) == o = Len(t) \/ t[o + 1] = "\n"

\* the offset where the run of \s characters that starts at offset o ends
RECURSIVE SpaceRunEnd(_, _)
SpaceRunEnd(t, o) ==
    IF o < Len(t) /\ IsSpace(t[o + 1]) THEN SpaceRunEnd(t, o + 1) ELSE o

\* the least offset >= from whose character is c, or -1
RECURSIVE IndexOf(_, _, _)
IndexOf(t, c, from) ==
    IF from >= Len(t) THEN -1
    ELSE IF t[from + 1] = c THEN from
    ELSE IndexOf(t, c, from + 1)

ModulesWord == << "M", "o", "d", "u", "l", "e", "s" >>

(***************************************************************************)
(* re.search(r'(?m)^##\s+Modules\s*$', text)                               *)
(***************************************************************************)
\* The end of the match that starts at offset p, or -1.  \s+ is followed by
\* "M", so it takes the whole run of whitespace (line breaks included);
\* the greedy \s* gives back to the last offset of its run where $ holds.
HeadingMatchEnd(t, p) ==
    IF ~(AtLineStart(t, p) /\ HasAt(t, p, << "#", "#" >>)) THEN -1
    ELSE LET q == SpaceRunEnd(t, p + 2) IN
         IF q = p + 2 \/ ~HasAt(t, q, ModulesWord) THEN -1
         ELSE LET a == q + Len(ModulesWord)
                  ends == { e \in a .. SpaceRunEnd(t, a) : AtLineEnd(t, e) }
              IN  IF ends = {} THEN -1 ELSE Max(ends)

\* m: the leftmost match, [found, start, end]
HeadingSearch(t) ==
    LET at == { p \in 0 .. Len(t) : HeadingMatchEnd(t, p) # -1 } IN
    IF at = {} THEN [found |-> FALSE, start |-> -1, end |-> -1]
    ELSE [found |-> TRUE, start |-> Min(at), end |-> HeadingMatchEnd(t, Min(at))]

(***************************************************************************)
(* re.search(r'(?m)^(?:#|\##)\s+', text[start_idx:])                       *)
(***************************************************************************)
HeadingMarkerAt(s, p) ==
    /\ AtLineStart(s, p)
    /\ HasAt(s, p, << "#" >>)
    /\ \/ p + 1 < Len(s) /\ IsSpace(s[p + 2])
       \/ /\ HasAt(s, p, << "#", "#" >>)
          /\ p + 2 < Len(s) /\ IsSpace(s[p + 3])

\* m_end.start(), or -1 for no match
NextHeadingSearch(s) ==
    LET at == { p \in 0 .. Len(s) : HeadingMarkerAt(s, p) } IN
    IF at = {} THEN -1 ELSE Min(at)

(***************************************************************************)
(* re.sub(r'(?<!\!)\[(?P<label>[^\]]+)\]\([^)]+\)', r'[\g<label>]', s)     *)
(***************************************************************************)
\* The match that starts at offset i: [ok, start, labelEnd, end], where
\* labelEnd is the offset of the "]" and end the offset after the ")".
\* [^\]]+ runs to the first "]" and [^)]+ to the first ")": neither can
\* give characters back, so a start has at most one match.
LinkMatchAt(s, i) ==
    LET no == [ok |-> FALSE, start |-> i, labelEnd |-> -1, end |-> -1]
        k == IndexOf(s, "]", i + 1)
    IN  IF ~HasAt(s, i, << "[" >>) THEN no
        ELSE IF i > 0 /\ s[i] = "!" THEN no
        ELSE IF k = -1 \/ k = i + 1 THEN no
        ELSE IF ~HasAt(s, k + 1, << "(" >>) THEN no
        ELSE LET j == IndexOf(s, ")", k + 2) IN
             IF j = -1 \/ j = k + 2 THEN no
             ELSE [ok |-> TRUE, start |-> i, labelEnd |-> k, end |-> j + 1]

\* the leftmost match that starts at or after pos
RECURSIVE NextLink(_, _)
NextLink(s, pos) ==
    IF pos >= Len(s) THEN LinkMatchAt(s, pos)
    ELSE IF LinkMatchAt(s, pos).ok THEN LinkMatchAt(s, pos)
    ELSE NextLink(s, pos + 1)

\* the matches re.sub replaces: found left to right, each search resuming
\* where the previous match ended
RECURSIVE FindLinks(_, _)
FindLinks(s, pos) ==
    LET m == NextLink(s, pos) IN
    IF ~m.ok THEN << >> ELSE << m >> \o FindLinks(s, m.end)

\* the template r'[\g<label>]' expanded for match m
ExpandTemplate(s, m) == << "[" >> \o Slice(s, m.start + 1, m.labelEnd) \o << "]" >>

RECURSIVE SubJoin(_, _, _)
SubJoin(s, ms, pos) ==
    IF ms = << >> THEN Slice(s, pos, Len(s))
    ELSE Slice(s, pos, Head(ms).start) \o ExpandTemplate(s, Head(ms))
            \o SubJoin(s, Tail(ms), Head(ms).end)

SubLinks(s) == SubJoin(s, FindLinks(s, 0), 0)

(***************************************************************************)
(* main, lines 42 to 69: the text main writes for the text it read         *)
(***************************************************************************)
SectionEnd(t, start_idx) ==
    LET m_end == NextHeadingSearch(Slice(t, start_idx, Len(t))) IN
    IF m_end # -1 THEN start_idx + m_end ELSE Len(t)

RewriteModules(t) ==
    LET m == HeadingSearch(t) IN
    IF ~m.found THEN t
    ELSE LET start_idx == m.end
             end_idx == SectionEnd(t, start_idx)
             before == Slice(t, 0, start_idx)
             section == Slice(t, start_idx, end_idx)
             after == Slice(t, end_idx, Len(t))
         IN  before \o SubLinks(section) \o after

(***************************************************************************)
(* Text files: README.read_text(encoding="utf-8") and                      *)
(* OUTFILE.write_text(..., encoding="utf-8") open the file in text mode    *)
(* with the default newline handling.                                      *)
(***************************************************************************)
\* reading: "\r\n" and a lone "\r" both become "\n"
RECURSIVE ReadText(_)
ReadText(b) ==
    IF b = << >> THEN << >>
    ELSE IF Head(b) = "\r"
         THEN IF Len(b) > 1 /\ b[2] = "\n"
              THEN << "\n" >> \o ReadText(SubSeq(b, 3, Len(b)))
              ELSE << "\n" >> \o ReadText(Tail(b))
         ELSE << Head(b) >> \o ReadText(Tail(b))

\* writing: every "\n" becomes os.linesep
RECURSIVE WriteText(_, _)
WriteText(t, sep) ==
    IF t = << >> THEN << >>
    ELSE (IF Head(t) = "\n" THEN sep ELSE << Head(t) >>) \o WriteText(Tail(t), sep)

(***************************************************************************)
(* Paths.  A Path is [rel, parts]: whether it is relative, and its         *)
(* components as written (".." included).  The filesystem is keyed by the  *)
(* components of the absolute path without "..".                           *)
(***************************************************************************)
Abs(parts) == [rel |-> FALSE, parts |-> parts]

RECURSIVE Normalize(_, _)
Normalize(done, todo) ==
    IF todo = << >> THEN done
    ELSE IF Head(todo) = ".."
         THEN Normalize(IF done = << >> THEN done
                        ELSE SubSeq(done, 1, Len(done) - 1), Tail(todo))
         ELSE Normalize(Append(done, Head(todo)), Tail(todo))

\* the file or directory the operating system finds for path p
FsKey(p) == Normalize(<< >>, (IF p.rel THEN cwd.parts ELSE << >>) \o p.parts)

\* Path.resolve(): absolute, "." and ".." removed
Resolve(p) == Abs(FsKey(p))

\* Path.parent: the path without its last component; the root is its own
Parent(p) ==
    IF p.parts = << >> THEN p
    ELSE [p EXCEPT !.parts = SubSeq(p.parts, 1, Len(p.parts) - 1)]

\* p / name
Join(p, name) == [p EXCEPT !.parts = Append(p.parts, name)]

\* Path.exists()
PathExists(p) == FsKey(p) \in exists

\* the keys of a directory and of every directory above it
AncestorKeys(k) == { SubSeq(k, 1, n) : n \in 0 .. Len(k) }

(***************************************************************************)
(* find_project_root                                                       *)
(***************************************************************************)
\* README.md alone taken for a marker
LoopBodyNoSrc(startp, c) ==
    IF PathExists(Join(c, ".git")) THEN [why |-> "git", val |-> c]
    ELSE IF PathExists(Join(c, "README.md")) THEN [why |-> "readme_src", val |-> c]
    ELSE IF Parent(c) = c THEN [why |-> "fallback", val |-> startp]
    ELSE [why |-> "up", val |-> Parent(c)]

\* the fallback returning the filesystem root the walk ended at
LoopBodyReturnsCur(startp, c) ==
    IF PathExists(Join(c, ".git")) THEN [why |-> "git", val |-> c]
    ELSE IF PathExists(Join(c, "README.md")) /\ PathExists(Join(c, "src"))
         THEN [why |-> "readme_src", val |-> c]
    ELSE IF Parent(c) = c THEN [why |-> "fallback", val |-> c]
    ELSE [why |-> "up", val |-> Parent(c)]

\* one pass of the while loop with the candidate c
LoopBody(startp, c) ==
    IF PathExists(Join(c, ".git")) THEN [why |-> "git", val |-> c]
    ELSE IF PathExists(Join(c, "README.md")) /\ PathExists(Join(c, "src"))
         THEN [why |-> "readme_src", val |-> c]
    ELSE IF Parent(c) = c THEN [why |-> "fallback", val |-> startp]
    ELSE [why |-> "up", val |-> Parent(c)]

RECURSIVE WalkFrom(_, _)
WalkFrom(startp, c) ==
    LET b == LoopBody(startp, c) IN
    IF b.why = "up" THEN WalkFrom(startp, b.val) ELSE b.val

\* the whole call, as main uses it
find_project_root(startp) == WalkFrom(startp, Resolve(startp))

\* the call step by step
CallFind ==
    /\ wpc = "idle"
    /\ cur' = Resolve(start)
    /\ wpc' = "loop"
    /\ UNCHANGED << exists, content, linesep, cwd, script_dir, pc, root,
                    usedScript, text, new_text, rc, msg, runs, prev, fs0,
                    start, ret, iters >>

WalkGit ==
    /\ wpc = "loop"
    /\ LoopBody(start, cur).why = "git"
    /\ ret' = LoopBody(start, cur).val
    /\ wpc' = "returned"
    /\ iters' = iters + 1
    /\ UNCHANGED << exists, content, linesep, cwd, script_dir, pc, root,
                    usedScript, text, new_text, rc, msg, runs, prev, fs0,
                    start, cur >>

WalkReadmeSrc ==
    /\ wpc = "loop"
    /\ LoopBody(start, cur).why = "readme_src"
    /\ ret' = LoopBody(start, cur).val
    /\ wpc' = "returned"
    /\ iters' = iters + 1
    /\ UNCHANGED << exists, content, linesep, cwd, script_dir, pc, root,
                    usedScript, text, new_text, rc, msg, runs, prev, fs0,
                    start, cur >>

WalkFallback ==
    /\ wpc = "loop"
    /\ LoopBody(start, cur).why = "fallback"
    /\ ret' = LoopBody(start, cur).val
    /\ wpc' = "returned"
    /\ iters' = iters + 1
    /\ UNCHANGED << exists, content, linesep, cwd, script_dir, pc, root,
                    usedScript, text, new_text, rc, msg, runs, prev, fs0,
                    start, cur >>

WalkUp ==
    /\ wpc = "loop"
    /\ LoopBody(start, cur).why = "up"
    /\ cur' = LoopBody(start, cur).val
    /\ iters' = iters + 1
    /\ UNCHANGED << exists, content, linesep, cwd, script_dir, pc, root,
                    usedScript, text, new_text, rc, msg, runs, prev, fs0,
                    start, ret, wpc >>

(***************************************************************************)
(* main                                                                    *)
(***************************************************************************)
README == Join(root, "README.md")

\* the output directory taken below the working directory
OUTDIRInCwd == Join(cwd, "src")

OUTDIR == Join(root, "src")

OUTFILE == Join(OUTDIR, "RUSTDOC.md")

\* the search from the script directory left out
ResolvedRootNoRetry ==
    [root |-> find_project_root(cwd), usedScript |-> FALSE]

\* lines 25 to 30
ResolvedRoot ==
    LET first == find_project_root(cwd) IN
    IF ~PathExists(Join(first, "README.md"))
    THEN [root |-> find_project_root(script_dir), usedScript |-> TRUE]
    ELSE [root |-> first, usedScript |-> FALSE]

ResolveRoot ==
    /\ pc = "start"
    /\ root' = ResolvedRoot.root
    /\ usedScript' = ResolvedRoot.usedScript
    /\ pc' = "resolved"
    /\ UNCHANGED << exists, content, linesep, cwd, script_dir, text, new_text,
                    rc, msg, runs, prev, fs0, start, cur, ret, wpc, iters >>

\* the output directory made before README.md is looked for
MissingReadmeAfterMkdir ==
    /\ pc = "resolved"
    /\ ~PathExists(README)
    /\ exists' = exists \cup AncestorKeys(FsKey(OUTDIR))
    /\ msg' = "error"
    /\ rc' = 1
    /\ pc' = "exit"
    /\ UNCHANGED << content, linesep, cwd, script_dir, root, usedScript, text,
                    new_text, runs, prev, fs0, start, cur, ret, wpc, iters >>

\* lines 36 to 38
MissingReadme ==
    /\ pc = "resolved"
    /\ ~PathExists(README)
    /\ msg' = "error"
    /\ rc' = 1
    /\ pc' = "exit"
    /\ UNCHANGED << exists, content, linesep, cwd, script_dir, root, usedScript,
                    text, new_text, runs, prev, fs0, start, cur, ret, wpc, iters >>

\* line 40
ReadReadme ==
    /\ pc = "resolved"
    /\ PathExists(README)
    /\ text' = ReadText(content[FsKey(README)])
    /\ pc' = "read"
    /\ UNCHANGED << exists, content, linesep, cwd, script_dir, root, usedScript,
                    new_text, rc, msg, runs, prev, fs0, start, cur, ret, wpc,
                    iters >>

\* OUTDIR.mkdir(parents=True, exist_ok=True); OUTFILE.write_text(t)
WriteOutfile(t) ==
    /\ exists' = exists \cup AncestorKeys(FsKey(OUTDIR)) \cup {FsKey(OUTFILE)}
    /\ content' = [k \in DOMAIN content \cup {FsKey(OUTFILE)} |->
                     IF k = FsKey(OUTFILE) THEN WriteText(t, linesep)
                     ELSE content[k]]
    /\ new_text' = t

\* lines 44 to 49
CopyUnchanged ==
    /\ pc = "read"
    /\ ~HeadingSearch(text).found
    /\ WriteOutfile(text)
    /\ msg' = "copied"
    /\ rc' = 0
    /\ pc' = "exit"
    /\ UNCHANGED << linesep, cwd, script_dir, root, usedScript, text, runs,
                    prev, fs0, start, cur, ret, wpc, iters >>

\* lines 51 to 74
RewriteSection ==
    /\ pc = "read"
    /\ HeadingSearch(text).found
    /\ WriteOutfile(RewriteModules(text))
    /\ msg' = "created"
    /\ rc' = 0
    /\ pc' = "exit"
    /\ UNCHANGED << linesep, cwd, script_dir, root, usedScript, text, runs,
                    prev, fs0, start, cur, ret, wpc, iters >>

\* the tool is run again on the filesystem the last run left
Reinvoke ==
    /\ pc = "exit"
    /\ runs < MaxRuns
    /\ runs' = runs + 1
    /\ prev' = [ran |-> TRUE, rc |-> rc, root |-> root,
                usedScript |-> usedScript,
                hadSrc |-> FsKey(OUTDIR) \in fs0.exists,
                written |-> IF rc = 0 THEN content[FsKey(OUTFILE)] ELSE None]
    /\ fs0' = [exists |-> exists, content |-> content]
    /\ pc' = "start"
    /\ root' = Abs(None)
    /\ usedScript' = FALSE
    /\ text' = None
    /\ new_text' = None
    /\ rc' = -1
    /\ msg' = "none"
    /\ UNCHANGED << exists, content, linesep, cwd, script_dir, start, cur, ret,
                    wpc, iters >>

(***************************************************************************)
(* Inputs.                                                                 *)
(***************************************************************************)
LF == << "\n" >>

CRLF == << "\r", "\n" >>

LinkAB == << "[", "a", "]", "(", "b", ")" >>

\* the pieces README texts are put together from
Chunks ==
    { << "#", "#", " " >> \o ModulesWord \o LF,             \* the heading line
      << "#", "#" >> \o LF,                                 \* "##" alone on a line
      << "#", "#" >> \o LF \o ModulesWord \o << " ", "\t" >> \o CRLF,
                                                            \* "##", the word a line below
      << "#", "#", " " >> \o ModulesWord \o << " ", "x" >> \o LF,
      << "#", "#", "#", " " >> \o ModulesWord \o LF,
      LinkAB,                                               \* an inline link
      << "(", "c", ")" >>,                                  \* a parenthesised group
      << "!", "[", "i", "]", "(", "j", ")" >>,              \* an image
      << "!", "[", "x" >>,                                  \* an image's "![" and label start
      << "[", "z", "]", "(" >>,                             \* a link up to its "("
      LF \o << "#", " " >> \o LinkAB \o LF,                 \* a level-1 heading
      LF \o << "#", "#", "\t" >> \o ModulesWord \o LF,      \* the heading, tab-spaced
      LF \o << "#", "#", "#", " ", "V" >> \o LF,            \* a level-3 heading
      LF \o << " ", "#", " ", "W" >> \o LF }                \* an indented "# "

RECURSIVE TextsOf(_)
TextsOf(n) ==
    IF n = 0 THEN { << >> }
    ELSE LET S == TextsOf(n - 1) IN S \cup { s \o c : s \in S, c \in Chunks }

Lineseps == { LF, CRLF }

\* the directories of the filesystems main is run on
MainDirs == { << >>, << "p" >>, << "p", "s" >>, << "q" >> }

MarkerNames == { ".git", "README.md", "src" }

\* the README.md the initial filesystem holds in directory d, if it holds one
ReadmeOf(d) ==
    IF d = << "p" >>
    THEN << "#", " ", "T" >> \o LF \o << "#", "#", " " >> \o ModulesWord \o LF
            \o LinkAB \o LF \o << "#", "#", " ", "U" >> \o LF \o LinkAB \o LF
    ELSE IF d = << >>
    THEN << "#", "#", " " >> \o ModulesWord \o CRLF \o LinkAB \o CRLF
    ELSE IF d = << "q" >>
    THEN << "#", "#", " ", "m" >> \o LF \o LinkAB \o LF
    ELSE << "#", "#", " " >> \o ModulesWord \o LF \o LinkAB \o << "(", "c", ")" >>

\* a RUSTDOC.md left by something else
StaleDoc == << "o", "l", "d" >>

\* the src directory of project p, when there is one, holds such a file
WithStaleDoc(placed) ==
    IF << "p", "src" >> \in placed
    THEN placed \cup { << "p", "src", "RUSTDOC.md" >> } ELSE placed

IsReadmeKey(k) == k # << >> /\ k[Len(k)] = "README.md"

IsDocKey(k) == k # << >> /\ k[Len(k)] = "RUSTDOC.md"

\* the filesystem that holds the entries `placed` and the directories `dirs`
FsExists(placed, dirs) == UNION { AncestorKeys(k) : k \in placed \cup dirs }

FsContent(placed) ==
    [k \in { f \in placed : IsReadmeKey(f) \/ IsDocKey(f) } |->
        IF IsReadmeKey(k) THEN ReadmeOf(SubSeq(k, 1, Len(k) - 1)) ELSE StaleDoc]

NoFs == [exists |-> {}, content |-> << >>]

MainIdle ==
    /\ pc = "start"
    /\ root = Abs(None)
    /\ usedScript = FALSE
    /\ text = None
    /\ new_text = None
    /\ rc = -1
    /\ msg = "none"
    /\ runs = 1
    /\ prev = [ran |-> FALSE, rc |-> -1, root |-> Abs(None), usedScript |-> FALSE,
               hadSrc |-> FALSE, written |-> None]

WalkIdle ==
    /\ start = Abs(None)
    /\ cur = Abs(None)
    /\ ret = Abs(None)
    /\ wpc = "off"
    /\ iters = 0

(***************************************************************************)
(* Spec: the tool run, and run again, on small directory trees.            *)
(***************************************************************************)
Init ==
    /\ cwd \in { Abs(d) : d \in MainDirs }
    /\ script_dir \in { Abs(d) : d \in MainDirs }
    /\ linesep \in Lineseps
    /\ \E placed \in SUBSET { Append(d, e) : d \in MainDirs, e \in MarkerNames } :
          /\ Cardinality(placed) <= MaxEntries
          /\ exists = FsExists(WithStaleDoc(placed), { cwd.parts, script_dir.parts })
          /\ content = FsContent(WithStaleDoc(placed))
    /\ fs0 = [exists |-> exists, content |-> content]
    /\ MainIdle
    /\ WalkIdle

Next ==
    \/ ResolveRoot
    \/ MissingReadme
    \/ ReadReadme
    \/ CopyUnchanged
    \/ RewriteSection
    \/ Reinvoke

Spec == Init /\ [][Next]_vars

(***************************************************************************)
(* SpecRewrite: one run of the tool in a project whose README.md is any    *)
(* text put together from the chunks.                                      *)
(***************************************************************************)
InitRewrite ==
    /\ cwd = Abs(<< "p" >>)
    /\ script_dir = Abs(<< "p", "scripts" >>)
    /\ linesep = LF
    /\ exists = FsExists({ << "p", "README.md" >> }, { script_dir.parts })
    /\ content \in { [k \in { << "p", "README.md" >> } |-> b] : b \in TextsOf(MaxChunks) }
    /\ fs0 = [exists |-> exists, content |-> content]
    /\ MainIdle
    /\ WalkIdle

NextRewrite ==
    \/ ResolveRoot
    \/ ReadReadme
    \/ CopyUnchanged
    \/ RewriteSection

SpecRewrite == InitRewrite /\ [][NextRewrite]_vars

(***************************************************************************)
(* SpecRoot: find_project_root called with any short path, on a filesystem *)
(* with marker entries in the directories at and above that path.          *)
(***************************************************************************)
StartParts == UNION { [1 .. n -> { "p", ".." }] : n \in 0 .. MaxStartLen }

InitRoot ==
    /\ cwd = Abs(<< "q" >>)
    /\ start \in { [rel |-> r, parts |-> ps] : r \in BOOLEAN, ps \in StartParts }
    /\ \E placed \in SUBSET { Append(d, e) : d \in AncestorKeys(FsKey(start)),
                                              e \in MarkerNames },
          present \in BOOLEAN :
          /\ Cardinality(placed) <= MaxEntries
          /\ exists = FsExists(placed, { cwd.parts } \cup
                                   (IF present THEN { FsKey(start) } ELSE {}))
          /\ content = FsContent(placed)
    /\ script_dir = cwd
    /\ linesep = LF
    /\ fs0 = NoFs
    /\ MainIdle
    /\ cur = Abs(None)
    /\ ret = Abs(None)
    /\ wpc = "idle"
    /\ iters = 0

NextRoot ==
    \/ CallFind
    \/ WalkGit
    \/ WalkReadmeSrc
    \/ WalkFallback
    \/ WalkUp

SpecRoot == InitRoot /\ [][NextRoot]_vars

(***************************************************************************)
(* What the claims speak of, stated without the code's search operators.   *)
(***************************************************************************)
\* whitespace that does not end a line
IsBlank(c) == IsSpace(c) /\ c # "\n"

\* offset p starts a line of the form "##", blanks, "Modules", blanks
HeadingLineAt(t, p) ==
    /\ AtLineStart(t, p)
    /\ HasAt(t, p, << "#", "#" >>)
    /\ \E q \in p + 3 .. Len(t) :
          /\ \A x \in p + 2 .. q - 1 : IsBlank(t[x + 1])
          /\ HasAt(t, q, ModulesWord)
          /\ \E e \in q + Len(ModulesWord) .. Len(t) :
                /\ \A x \in q + Len(ModulesWord) .. e - 1 : IsBlank(t[x + 1])
                /\ AtLineEnd(t, e)

HasHeadingLine(t) == \E p \in 0 .. Len(t) : HeadingLineAt(t, p)

\* offset p > 0 starts a line that begins "# " or "## " (any whitespace)
MarkerLineAt(t, p) ==
    /\ p > 0 /\ p < Len(t)
    /\ t[p] = "\n"
    /\ t[p + 1] = "#"
    /\ \/ p + 1 < Len(t) /\ IsSpace(t[p + 2])
       \/ p + 2 < Len(t) /\ t[p + 2] = "#" /\ IsSpace(t[p + 3])

\* where the section that starts at offset s ends
SpanEnd(t, s) ==
    LET at == { p \in s .. Len(t) : MarkerLineAt(t, p) } IN
    IF at = {} THEN Len(t) ELSE Min(at)

\* "[" label "]" "(" url ")" from offset i, with the "]" at k and the ")" at j
BracketForm(s, i, k, j) ==
    /\ i >= 0 /\ j < Len(s)
    /\ s[i + 1] = "["
    /\ k > i + 1 /\ s[k + 1] = "]"
    /\ k + 1 < Len(s) /\ s[k + 2] = "("
    /\ j > k + 2 /\ s[j + 1] = ")"
    /\ \A x \in i + 1 .. k - 1 : s[x + 1] # "]"
    /\ \A x \in k + 2 .. j - 1 : s[x + 1] # ")"

\* the (i, k, j) of every non-image inline link of s
LinkOccs(s) ==
    { o \in (0 .. Len(s) - 1) \X (0 .. Len(s) - 1) \X (0 .. Len(s) - 1) :
        /\ s[o[1] + 1] = "["
        /\ s[o[2] + 1] = "]"
        /\ s[o[3] + 1] = ")"
        /\ BracketForm(s, o[1], o[2], o[3])
        /\ (o[1] = 0 \/ s[o[1]] # "!") }

\* the (i, k, j) of every image of s, i the offset of its "!"
ImageOccs(s) ==
    { o \in (0 .. Len(s) - 1) \X (0 .. Len(s) - 1) \X (0 .. Len(s) - 1) :
        /\ s[o[1] + 1] = "!"
        /\ s[o[2] + 1] = "]"
        /\ s[o[3] + 1] = ")"
        /\ BracketForm(s, o[1] + 1, o[2], o[3]) }

RECURSIVE IsSubseq(_, _)
IsSubseq(a, b) ==
    IF a = << >> THEN TRUE
    ELSE IF b = << >> THEN FALSE
    ELSE IF Head(a) = Head(b) THEN IsSubseq(Tail(a), Tail(b))
    ELSE IsSubseq(a, Tail(b))

RECURSIVE KeepFrom(_, _, _)
KeepFrom(s, D, o) ==
    IF o >= Len(s) THEN << >>
    ELSE (IF o \in D THEN << >> ELSE << s[o + 1] >>) \o KeepFrom(s, D, o + 1)

\* the end of the line of the first heading line, where its section starts
SpanStart(t) ==
    LET p == Min({ x \in 0 .. Len(t) : HeadingLineAt(t, x) }) IN
    Min({ e \in p .. Len(t) : AtLineEnd(t, e) })

\* a run that ended with a text written
Wrote == pc = "exit" /\ rc = 0

\* a run that wrote the text of a README with a heading line
WroteSection == Wrote /\ HasHeadingLine(text)

BodyStart == SpanStart(text)

BodyEnd == SpanEnd(text, BodyStart)

Body == Slice(text, BodyStart, BodyEnd)

SuffixLen == Len(text) - BodyEnd

\* the part of the written text between the prefix and the suffix
OutBody == Slice(new_text, BodyStart, Len(new_text) - SuffixLen)

\* the offsets of the text whose characters the substitution dropped
Dropped ==
    LET m == HeadingSearch(text) IN
    IF ~m.found THEN {}
    ELSE LET ms == FindLinks(Slice(text, m.end, SectionEnd(text, m.end)), 0) IN
         UNION { (m.end + ms[x].labelEnd + 1) .. (m.end + ms[x].end - 1) :
                 x \in 1 .. Len(ms) }

\* the written text is the text without the dropped characters
WrittenIsKept == new_text = KeepFrom(text, Dropped, 0)

\* occurrence o of the body keeps its "[label]" and loses its "(url)"
Replaced(o) ==
    /\ \A x \in o[1] .. o[2] : BodyStart + x \notin Dropped
    /\ \A x \in o[2] + 1 .. o[3] : BodyStart + x \in Dropped

\* the "[" of o lies inside the "(url)" of another link
InsideUrl(o, occs) == \E a \in occs : a[2] + 1 < o[1] /\ o[1] < a[3]

\* the heading the search finds is the first heading line
MatchIsHeadingLine ==
    /\ HeadingSearch(text).found
    /\ HeadingLineAt(text, HeadingSearch(text).start)

(***************************************************************************)
(* C1: when the text has a "## Modules" heading, the written text is the   *)
(* text up to the start of the section body, then the body with characters *)
(* removed and none added, then the text from the next "# " or "## " line  *)
(* (or the end) onward: nothing outside the section span changes.          *)
(***************************************************************************)
C1_Framing ==
    WroteSection =>
        /\ Len(new_text) >= BodyStart + SuffixLen
        /\ Slice(new_text, 0, BodyStart) = Slice(text, 0, BodyStart)
        /\ Slice(new_text, Len(new_text) - SuffixLen, Len(new_text))
              = Slice(text, BodyEnd, Len(text))
        /\ IsSubseq(OutBody, Body)

(***************************************************************************)
(* C2: rewriting the written text again changes nothing.                   *)
(***************************************************************************)
C2_Idempotent == Wrote => RewriteModules(new_text) = new_text

(***************************************************************************)
(* C3: every image "![label](url)" of the section body is in the written   *)
(* text unchanged, and a link that follows it directly loses its "(url)".  *)
(***************************************************************************)
C3_ImagesKept ==
    WroteSection =>
        /\ WrittenIsKept
        /\ \A g \in ImageOccs(Body) :
              /\ \A x \in g[1] .. g[3] : BodyStart + x \notin Dropped
              /\ \A o \in LinkOccs(Body) : o[1] = g[3] + 1 => Replaced(o)

(***************************************************************************)
(* C4: when no line of the text is "##", blanks, "Modules", blanks, the    *)
(* tool writes the text as it read it and returns 0.                       *)
(***************************************************************************)
C4_NoHeadingCopy ==
    pc = "exit" /\ ~HasHeadingLine(text) => new_text = text /\ rc = 0

(***************************************************************************)
(* C5: the written text differs from the text only inside the span from    *)
(* the heading line to the next "# " or "## " line (or the end), and every *)
(* non-image inline link inside that span is replaced by its "[label]".    *)
(***************************************************************************)
C5_EveryLink ==
    WroteSection =>
        /\ WrittenIsKept
        /\ Dropped \subseteq BodyStart .. BodyEnd - 1
        /\ \A o \in LinkOccs(Body) : Replaced(o)

(***************************************************************************)
(* What holds of the section rewrite whichever heading the search finds:   *)
(* the written text is the text without the "(url)" parts the substitution *)
(* matched; and when the search finds the first heading line, the text     *)
(* changes only inside the span and every non-image inline link of the     *)
(* span whose "[" is not inside the "(url)" of another link is replaced.   *)
(***************************************************************************)
RewriteOfMatch ==
    Wrote =>
        /\ WrittenIsKept
        /\ MatchIsHeadingLine =>
              /\ Dropped \subseteq BodyStart .. BodyEnd - 1
              /\ \A o \in LinkOccs(Body) :
                    ~InsideUrl(o, LinkOccs(Body)) => Replaced(o)

(***************************************************************************)
(* Root markers, stated on a filesystem given as a set of paths.           *)
(***************************************************************************)
Marked(fs, k) ==
    \/ Append(k, ".git") \in fs
    \/ Append(k, "README.md") \in fs /\ Append(k, "src") \in fs

MarkedAbove(fs, k) == { a \in AncestorKeys(k) : Marked(fs, a) }

Deepest(S) == CHOOSE a \in S : \A b \in S : Len(b) <= Len(a)

\* what the root locator is to return for path p
Located(fs, p) ==
    IF MarkedAbove(fs, FsKey(p)) = {} THEN p
    ELSE Abs(Deepest(MarkedAbove(fs, FsKey(p))))

(***************************************************************************)
(* C6: with no marker at or above the start directory the search ends,     *)
(* after at most one pass per directory from the start up to the root,     *)
(* and returns the start path as it was passed in.                         *)
(***************************************************************************)
C6_Fallback ==
    /\ wpc \in { "idle", "loop" } => ENABLED NextRoot
    /\ wpc = "loop" => iters <= Len(FsKey(start))
    /\ wpc = "returned" => iters <= Len(FsKey(start)) + 1
    /\ wpc = "returned" /\ MarkedAbove(exists, FsKey(start)) = {} => ret = start

\* a start that does not exist, is not in resolved form and lies two
\* directories below the root comes back unchanged
C6_Witness ==
    /\ wpc = "returned"
    /\ MarkedAbove(exists, FsKey(start)) = {}
    /\ ret = start
    /\ start # Resolve(start)
    /\ FsKey(start) \notin exists
    /\ iters = 3

(***************************************************************************)
(* C7: with a marker at or above the start directory the search returns    *)
(* the nearest marked directory: it is marked, and no directory from the   *)
(* start up to it is.                                                      *)
(***************************************************************************)
C7_Nearest ==
    wpc = "returned" /\ MarkedAbove(exists, FsKey(start)) # {} =>
        /\ ret.rel = FALSE
        /\ ret.parts \in AncestorKeys(FsKey(start))
        /\ Marked(exists, ret.parts)
        /\ \A a \in AncestorKeys(FsKey(start)) :
              Len(a) > Len(ret.parts) => ~Marked(exists, a)

\* two marked directories above the start: the nearer one, marked by
\* README.md and src alone, is returned
C7_Witness ==
    /\ wpc = "returned"
    /\ Cardinality(MarkedAbove(exists, FsKey(start))) = 2
    /\ Append(ret.parts, ".git") \notin exists
    /\ Len(ret.parts) < Len(FsKey(start))

(***************************************************************************)
(* C8: the root main uses is the locator's result for the working          *)
(* directory when that result holds README.md, and the script directory is *)
(* then not searched; otherwise it is the locator's result for the script  *)
(* directory, with or without README.md.                                   *)
(***************************************************************************)
C8_TwoTier ==
    pc # "start" =>
        LET first == Located(fs0.exists, cwd) IN
        IF Append(first.parts, "README.md") \in fs0.exists
        THEN root = first /\ ~usedScript
        ELSE root = Located(fs0.exists, script_dir) /\ usedScript

\* the working directory's result was chosen by .git and has no README.md;
\* the script directory's result has none either and is used all the same
C8_Witness ==
    /\ pc = "exit"
    /\ usedScript
    /\ Append(Located(fs0.exists, cwd).parts, ".git") \in fs0.exists
    /\ root # Located(fs0.exists, cwd)
    /\ rc = 1

(***************************************************************************)
(* C9: without README.md at the resolved root the tool returns non-zero    *)
(* and the filesystem is as it found it; with README.md there it writes    *)
(* src/RUSTDOC.md under that root and returns 0.                           *)
(***************************************************************************)
C9_MissingOrWritten ==
    /\ pc \in { "start", "resolved", "read" } =>
          exists = fs0.exists /\ content = fs0.content
    /\ pc = "exit" =>
          IF FsKey(README) \notin fs0.exists
          THEN rc # 0 /\ exists = fs0.exists /\ content = fs0.content
          ELSE /\ rc = 0
               /\ FsKey(OUTFILE) = root.parts \o << "src", "RUSTDOC.md" >>
               /\ AncestorKeys(FsKey(OUTFILE)) \subseteq exists
               /\ content[FsKey(OUTFILE)] = WriteText(new_text, linesep)
               /\ new_text # None
               /\ msg = (IF HeadingSearch(text).found THEN "created" ELSE "copied")

\* a run that fails beside another project's src/RUSTDOC.md
C9_Witness ==
    /\ pc = "exit"
    /\ rc = 1
    /\ << "p", "src", "RUSTDOC.md" >> \in exists
    /\ root # Abs(<< "p" >>)

(***************************************************************************)
(* C10: a run after a run that succeeded resolves the same root, writes    *)
(* the same content to the same file and returns 0; no run changes a       *)
(* README.md.                                                              *)
(***************************************************************************)
C10_Rerun ==
    /\ \A k \in exists \cup fs0.exists :
          IsReadmeKey(k) =>
              k \in exists /\ k \in fs0.exists /\ content[k] = fs0.content[k]
    /\ pc = "exit" /\ prev.ran /\ prev.rc = 0 =>
          /\ rc = 0
          /\ root = prev.root
          /\ content[FsKey(OUTFILE)] = prev.written

\* the first run found no marker above the working directory and fell back
\* to the script directory, which lies above it and had no src; the src it
\* created there marks it, so the second run finds the same root from the
\* working directory
C10_Witness ==
    /\ pc = "exit"
    /\ prev.ran /\ prev.rc = 0
    /\ prev.usedScript /\ ~prev.hadSrc
    /\ ~usedScript
    /\ rc = 0
    /\ root = script_dir
    /\ cwd # script_dir
    /\ Append(root.parts, ".git") \notin exists

====
